---- MODULE Spec2Model ----
(***************************************************************************)
(* Model of src/hyper_wrapper.rs: span_for_request creates a tracing span  *)
(* for an outgoing hyper request and annotates it; annotate_span_for_      *)
(* response adds the response's status to that span.                       *)
(*                                                                         *)
(* Option<T> is modelled as a sequence of length at most one:              *)
(* None == <<>> and Some(x) == <<x>>.                                      *)
(***************************************************************************)
EXTENDS Integers, Sequences, FiniteSets, TLC

VARIABLES pc, req, resp, span

vars == <<pc, req, resp, span>>

None == <<>>

Some(x) == <<x>>

(***************************************************************************)
(* Inputs: the parts of hyper::Request / hyper::Response the code reads.   *)
(***************************************************************************)

\* Method tokens (req.method()); Display writes the token itself.
Methods == {"GET", "POST"}

\* hyper::Version values; HTTP_09 is the one the match does not name.
Versions == {"HTTP_09", "HTTP_10", "HTTP_11", "HTTP_2", "HTTP_3"}

\* Scheme tokens a Uri can carry: the two standard protocols, and another
\* scheme, which the Uri stores with the letter case it was written in.
Schemes == {"http", "https", "FTP"}

\* Authorities: a host, with or without a port.
Authorities ==
    { [host |-> "api.example.com", port |-> None],
      [host |-> "localhost", port |-> Some("8500")] }

\* PathAndQuery data as the Uri stores it: the path text (possibly empty)
\* and the query, if a '?' was present.
PathAndQueries ==
    { [path |-> "", query |-> None],
      [path |-> "", query |-> Some("id=5")],
      [path |-> "/v1/users", query |-> None],
      [path |-> "/v1/users", query |-> Some("id=5")] }

\* The Uri forms hyper accepts: absolute-form (scheme, authority and a
\* possibly empty path), authority-form (authority only), origin-form
\* (a path starting with '/') and asterisk-form.
Uris ==
    { [scheme |-> Some(s), authority |-> Some(a), path_and_query |-> p] :
          s \in Schemes, a \in Authorities, p \in PathAndQueries }
    \cup
    { [scheme |-> None, authority |-> Some(a),
       path_and_query |-> [path |-> "", query |-> None]] : a \in Authorities }
    \cup
    { [scheme |-> None, authority |-> None, path_and_query |-> p] :
          p \in { q \in PathAndQueries : q.path # "" } }
    \cup
    { [scheme |-> None, authority |-> None,
       path_and_query |-> [path |-> "*", query |-> None]] }

Requests == [method : Methods, uri : Uris, version : Versions]

\* hyper::StatusCode holds a u16 in 100..=999.
MinStatus == 100

MaxStatus == 999

Responses == [status : MinStatus..MaxStatus]

(***************************************************************************)
(* Accessors of http::Uri that span_for_request calls.                     *)
(***************************************************************************)

\* Uri::host(): the host of the authority, without the port.
host(uri) ==
    IF uri.authority = None THEN None ELSE Some(uri.authority[1].host)

\* Uri::scheme_str(): the scheme token as the Uri holds it.
scheme_str(uri) == uri.scheme

\* Uri::path_and_query(): present when the Uri has a scheme or no authority.
path_and_query(uri) ==
    IF uri.scheme # None \/ uri.authority = None
    THEN Some(uri.path_and_query)
    ELSE None

\* PathAndQuery::path(): the path text, "/" when it is empty.
path(pq) == IF pq.path = "" THEN "/" ELSE pq.path

\* <PathAndQuery as Display>: the data, with a '/' put in front unless it
\* already starts with '/' or '*'.
PathAndQueryToString(pq) ==
    LET data == IF pq.query = None THEN pq.path
                ELSE pq.path \o "?" \o pq.query[1]
    IN  IF pq.path = "" THEN "/" \o data ELSE data

\* <Authority as Display>: host, and ":port" when there is a port.
AuthorityToString(a) ==
    IF a.port = None THEN a.host ELSE a.host \o ":" \o a.port[1]

\* <Uri as Display>: scheme "://", authority, path, "?" query.
UriToString(uri) ==
    LET has_path == uri.path_and_query.path # "" \/
                    uri.path_and_query.query # None \/
                    uri.scheme # None
        s == IF uri.scheme = None THEN "" ELSE uri.scheme[1] \o "://"
        a == IF uri.authority = None THEN ""
             ELSE AuthorityToString(uri.authority[1])
        p == IF has_path THEN path(uri.path_and_query) ELSE ""
        q == IF uri.path_and_query.query = None THEN ""
             ELSE "?" \o uri.path_and_query.query[1]
    IN  s \o a \o p \o q

(***************************************************************************)
(* The span: what Tracer::start, Span::set_attribute and Span::set_status  *)
(* do to it.  `log` records the keys in the order set_attribute was called.*)
(***************************************************************************)

start(name) ==
    [ name        |-> name,
      attributes  |-> [ k \in {} |-> "" ],
      log         |-> << >>,
      status      |-> "Unset",
      description |-> "" ]

set_attribute(s, k, v) ==
    [ s EXCEPT
        !.attributes = [ x \in (DOMAIN @) \cup {k} |->
                           IF x = k THEN v ELSE @[x] ],
        !.log = Append(@, k) ]

\* Variant: the status description also replaces the span's name.
set_status_renaming(s, code, description) ==
    [ s EXCEPT !.status = code, !.description = description,
               !.name = description ]

set_status(s, code, description) ==
    [ s EXCEPT !.status = code, !.description = description ]

(***************************************************************************)
(* Accessors of http::StatusCode that annotate_span_for_response calls.    *)
(***************************************************************************)

Digit(d) ==
    CASE d = 0 -> "0" [] d = 1 -> "1" [] d = 2 -> "2" [] d = 3 -> "3"
      [] d = 4 -> "4" [] d = 5 -> "5" [] d = 6 -> "6" [] d = 7 -> "7"
      [] d = 8 -> "8" [] d = 9 -> "9"

\* u16::to_string(): the decimal digits, most significant first, no padding.
RECURSIVE U16ToString(_)
U16ToString(n) ==
    IF n < 10 THEN Digit(n) ELSE U16ToString(n \div 10) \o Digit(n % 10)

\* StatusCode::as_str(): the three characters of the code, taken from a
\* table indexed by the code's offset from 100.
as_str(status) ==
    LET offset == status - MinStatus
    IN  Digit(1 + offset \div 100) \o Digit((offset \div 10) % 10)
                                   \o Digit(offset % 10)

\* StatusCode::canonical_reason(): the registered reason phrase, if any.
canonical_reason(status) ==
    CASE status = 100 -> Some("Continue")
      [] status = 101 -> Some("Switching Protocols")
      [] status = 102 -> Some("Processing")
      [] status = 200 -> Some("OK")
      [] status = 201 -> Some("Created")
      [] status = 202 -> Some("Accepted")
      [] status = 203 -> Some("Non Authoritative Information")
      [] status = 204 -> Some("No Content")
      [] status = 205 -> Some("Reset Content")
      [] status = 206 -> Some("Partial Content")
      [] status = 207 -> Some("Multi-Status")
      [] status = 208 -> Some("Already Reported")
      [] status = 226 -> Some("IM Used")
      [] status = 300 -> Some("Multiple Choices")
      [] status = 301 -> Some("Moved Permanently")
      [] status = 302 -> Some("Found")
      [] status = 303 -> Some("See Other")
      [] status = 304 -> Some("Not Modified")
      [] status = 305 -> Some("Use Proxy")
      [] status = 307 -> Some("Temporary Redirect")
      [] status = 308 -> Some("Permanent Redirect")
      [] status = 400 -> Some("Bad Request")
      [] status = 401 -> Some("Unauthorized")
      [] status = 402 -> Some("Payment Required")
      [] status = 403 -> Some("Forbidden")
      [] status = 404 -> Some("Not Found")
      [] status = 405 -> Some("Method Not Allowed")
      [] status = 406 -> Some("Not Acceptable")
      [] status = 407 -> Some("Proxy Authentication Required")
      [] status = 408 -> Some("Request Timeout")
      [] status = 409 -> Some("Conflict")
      [] status = 410 -> Some("Gone")
      [] status = 411 -> Some("Length Required")
      [] status = 412 -> Some("Precondition Failed")
      [] status = 413 -> Some("Payload Too Large")
      [] status = 414 -> Some("URI Too Long")
      [] status = 415 -> Some("Unsupported Media Type")
      [] status = 416 -> Some("Range Not Satisfiable")
      [] status = 417 -> Some("Expectation Failed")
      [] status = 418 -> Some("I'm a teapot")
      [] status = 421 -> Some("Misdirected Request")
      [] status = 422 -> Some("Unprocessable Entity")
      [] status = 423 -> Some("Locked")
      [] status = 424 -> Some("Failed Dependency")
      [] status = 426 -> Some("Upgrade Required")
      [] status = 428 -> Some("Precondition Required")
      [] status = 429 -> Some("Too Many Requests")
      [] status = 431 -> Some("Request Header Fields Too Large")
      [] status = 451 -> Some("Unavailable For Legal Reasons")
      [] status = 500 -> Some("Internal Server Error")
      [] status = 501 -> Some("Not Implemented")
      [] status = 502 -> Some("Bad Gateway")
      [] status = 503 -> Some("Service Unavailable")
      [] status = 504 -> Some("Gateway Timeout")
      [] status = 505 -> Some("HTTP Version Not Supported")
      [] status = 506 -> Some("Variant Also Negotiates")
      [] status = 507 -> Some("Insufficient Storage")
      [] status = 508 -> Some("Loop Detected")
      [] status = 510 -> Some("Not Extended")
      [] status = 511 -> Some("Network Authentication Required")
      [] OTHER -> None

\* hyper::StatusCode::OK
OK == 200

(***************************************************************************)
(* span_for_request                                                        *)
(***************************************************************************)

\* Variant: the whole authority (host and port) instead of the host.
host_or_unknown_authority(uri) ==
    IF uri.authority = None THEN "<unknown>"
    ELSE AuthorityToString(uri.authority[1])

\* req.uri().host().unwrap_or("<unknown>")
host_or_unknown(uri) ==
    IF host(uri) = None THEN "<unknown>" ELSE host(uri)[1]

\* format!("HTTP {} {}", req.method(), req.uri().host().unwrap_or(..))
span_name(r) == "HTTP " \o r.method \o " " \o host_or_unknown(r.uri)

\* Variant: the path alone, without the query.
set_http_target_path_only(s, r) ==
    IF path_and_query(r.uri) # None
    THEN set_attribute(s, "http.target", path(path_and_query(r.uri)[1]))
    ELSE s

\* if let Some(path_and_query) = req.uri().path_and_query() { .. }
set_http_target(s, r) ==
    IF path_and_query(r.uri) # None
    THEN set_attribute(s, "http.target",
                       PathAndQueryToString(path_and_query(r.uri)[1]))
    ELSE s

\* if let Some(host) = req.uri().host() { .. }
set_http_host(s, r) ==
    IF host(r.uri) # None
    THEN set_attribute(s, "http.host", host(r.uri)[1])
    ELSE s

\* Variant: a placeholder value instead of omitting the attribute.
set_http_scheme_placeholder(s, r) ==
    set_attribute(s, "http.scheme",
                  IF scheme_str(r.uri) # None THEN scheme_str(r.uri)[1]
                  ELSE "<unknown>")

\* if let Some(scheme) = req.uri().scheme_str() { .. }
set_http_scheme(s, r) ==
    IF scheme_str(r.uri) # None
    THEN set_attribute(s, "http.scheme", scheme_str(r.uri)[1])
    ELSE s

\* Variant: HTTP/2 written as "2.0".
serialized_version_two_dot_zero(version) ==
    CASE version = "HTTP_10" -> "1.0"
      [] version = "HTTP_11" -> "1.1"
      [] version = "HTTP_2"  -> "2.0"
      [] version = "HTTP_3"  -> "3"
      [] OTHER               -> "unknown"

\* match req.version() { .. }
serialized_version(version) ==
    CASE version = "HTTP_10" -> "1.0"
      [] version = "HTTP_11" -> "1.1"
      [] version = "HTTP_2"  -> "2"
      [] version = "HTTP_3"  -> "3"
      [] OTHER               -> "unknown"

\* Variant: http.url holds the request target instead of the whole Uri.
request_span_url_is_target(r) ==
    LET s0 == start(span_name(r))
        s1 == set_attribute(s0, "span.kind", "client")
        s2 == set_attribute(s1, "http.method", r.method)
        s3 == set_attribute(s2, "http.url",
                            PathAndQueryToString(r.uri.path_and_query))
        s4 == set_http_target(s3, r)
        s5 == set_http_host(s4, r)
        s6 == set_http_scheme(s5, r)
    IN  set_attribute(s6, "http.flavor", serialized_version(r.version))

\* The span the function returns for request r.
request_span(r) ==
    LET s0 == start(span_name(r))
        s1 == set_attribute(s0, "span.kind", "client")
        s2 == set_attribute(s1, "http.method", r.method)
        s3 == set_attribute(s2, "http.url", UriToString(r.uri))
        s4 == set_http_target(s3, r)
        s5 == set_http_host(s4, r)
        s6 == set_http_scheme(s5, r)
    IN  set_attribute(s6, "http.flavor", serialized_version(r.version))

\* Variant: host().unwrap() in the span name, which stops on a Uri
\* without a host.
span_for_request_unwrap(r) ==
    /\ pc = "unstarted"
    /\ host(r.uri) # None
    /\ req' = r
    /\ span' = request_span(r)
    /\ pc' = "started"
    /\ UNCHANGED resp

span_for_request(r) ==
    /\ pc = "unstarted"
    /\ req' = r
    /\ span' = request_span(r)
    /\ pc' = "started"
    /\ UNCHANGED resp

(***************************************************************************)
(* annotate_span_for_response                                              *)
(***************************************************************************)

\* Variant: an empty http.status_text when there is no canonical reason.
set_http_status_text_always(s, status) ==
    set_attribute(s, "http.status_text",
                  IF canonical_reason(status) # None
                  THEN canonical_reason(status)[1] ELSE "")

\* if let Some(canonical_reason) = status.canonical_reason() { .. }
set_http_status_text(s, status) ==
    IF canonical_reason(status) # None
    THEN set_attribute(s, "http.status_text", canonical_reason(status)[1])
    ELSE s

\* Variant: every 2xx code counts as success.
resolve_status_by_class(s, status) ==
    IF status \div 100 # 2
    THEN set_status(s, "Error", as_str(status))
    ELSE s

\* if status != hyper::StatusCode::OK { span.set_status(..) }
resolve_status(s, status) ==
    IF status # OK
    THEN set_status(s, "Error", as_str(status))
    ELSE s

\* Variant: the reason phrase is written under the key http.status_code.
response_span_same_key(s, response) ==
    LET status == response.status
        s1 == set_attribute(s, "http.status_code", U16ToString(status))
        s2 == IF canonical_reason(status) # None
              THEN set_attribute(s1, "http.status_code",
                                 canonical_reason(status)[1])
              ELSE s1
    IN  resolve_status(s2, status)

\* The span after the function has run on it with the given response.
response_span(s, response) ==
    LET status == response.status
        s1 == set_attribute(s, "http.status_code", U16ToString(status))
        s2 == set_http_status_text(s1, status)
    IN  resolve_status(s2, status)

annotate_span_for_response(response) ==
    /\ pc = "started"
    /\ resp' = response
    /\ span' = response_span(span, response)
    /\ pc' = "completed"
    /\ UNCHANGED req

(***************************************************************************)
(* The lifecycle of one span: created for a request, then annotated with   *)
(* the response to that request.                                           *)
(***************************************************************************)

Init ==
    /\ pc = "unstarted"
    /\ req = None
    /\ resp = None
    /\ span = None

Next ==
    \/ \E r \in Requests : span_for_request(r)
    \/ \E response \in Responses : annotate_span_for_response(response)

Spec == Init /\ [][Next]_vars

(***************************************************************************)
(* Properties                                                              *)
(***************************************************************************)

\* The keys span_for_request may write, and those of
\* annotate_span_for_response.
RequestKeys ==
    {"span.kind", "http.method", "http.url", "http.target", "http.host",
     "http.scheme", "http.flavor"}

ResponseKeys == {"http.status_code", "http.status_text"}

HasAttr(k) == k \in DOMAIN span.attributes

Attr(k) == span.attributes[k]

Begun == pc \in {"started", "completed"}

\* A three-digit code written digit by digit.
Decimal3(n) ==
    Digit(n \div 100) \o Digit((n \div 10) % 10) \o Digit(n % 10)

\* C1: after annotate_span_for_response the span's status is left at its
\* default exactly when the code is 200; for every other code the status is
\* Error and the description is the code in decimal.
C1_StatusClassification ==
    pc = "completed" =>
        /\ (span.status = "Unset") <=> (resp.status = 200)
        /\ resp.status = 200 => span.description = ""
        /\ resp.status # 200 =>
              /\ span.status = "Error"
              /\ span.description = Decimal3(resp.status)

C1_Witness ==
    /\ pc = "completed"
    /\ resp.status = 204
    /\ span.status = "Error"
    /\ span.description = "204"

\* C2: the span is named "HTTP <METHOD> <HOST>", with the Uri's host when it
\* has one and "<unknown>" when it has none.
C2_SpanName ==
    Begun =>
        span.name =
            "HTTP " \o req.method \o " " \o
            (IF req.uri.authority # None
             THEN req.uri.authority[1].host
             ELSE "<unknown>")

C2_Witness ==
    /\ pc = "started"
    /\ req.uri.authority = None
    /\ span.name = "HTTP POST <unknown>"

\* C3: http.target is present exactly when the Uri has a path-and-query
\* component, and is then the path followed by "?" and the query, if any.
C3_HttpTarget ==
    Begun =>
        LET pq == req.uri.path_and_query
        IN  /\ HasAttr("http.target") <=>
                  (req.uri.scheme # None \/ req.uri.authority = None)
            /\ HasAttr("http.target") =>
                  Attr("http.target") =
                      path(pq) \o
                      (IF pq.query = None THEN "" ELSE "?" \o pq.query[1])

C3_Witness ==
    /\ pc = "started"
    /\ req.uri.path_and_query.query # None
    /\ HasAttr("http.target")
    /\ Attr("http.target") = "/v1/users?id=5"

\* C4: http.flavor is always set, to "1.0", "1.1", "2" or "3" for the
\* versions 1.0, 1.1, 2 and 3, and to "unknown" for any other version.
C4_HttpFlavor ==
    Begun =>
        /\ HasAttr("http.flavor")
        /\ Attr("http.flavor") \in {"1.0", "1.1", "2", "3", "unknown"}
        /\ (req.version = "HTTP_10") <=> (Attr("http.flavor") = "1.0")
        /\ (req.version = "HTTP_11") <=> (Attr("http.flavor") = "1.1")
        /\ (req.version = "HTTP_2") <=> (Attr("http.flavor") = "2")
        /\ (req.version = "HTTP_3") <=> (Attr("http.flavor") = "3")
        /\ (req.version \notin {"HTTP_10", "HTTP_11", "HTTP_2", "HTTP_3"})
              <=> (Attr("http.flavor") = "unknown")

C4_Witness ==
    /\ pc = "started"
    /\ req.version = "HTTP_09"
    /\ Attr("http.flavor") = "unknown"

\* C5: http.status_code is always set to the code in decimal, and
\* http.status_text is set exactly when the code has a canonical reason
\* (200 -> "OK"), to that reason.
C5_StatusAttributes ==
    pc = "completed" =>
        /\ HasAttr("http.status_code")
        /\ Attr("http.status_code") = Decimal3(resp.status)
        /\ HasAttr("http.status_text") <=>
              (canonical_reason(resp.status) # None)
        /\ HasAttr("http.status_text") =>
              Attr("http.status_text") = canonical_reason(resp.status)[1]
        /\ resp.status = 200 =>
              HasAttr("http.status_text") /\ Attr("http.status_text") = "OK"

C5_Witness ==
    /\ pc = "completed"
    /\ resp.status = 299
    /\ Attr("http.status_code") = "299"
    /\ ~HasAttr("http.status_text")

\* C6: span.kind is "client", http.method is the request's method token and
\* http.url is the serialized Uri, whatever parts the Uri lacks.
C6_UnconditionalAttributes ==
    Begun =>
        /\ HasAttr("span.kind") /\ Attr("span.kind") = "client"
        /\ HasAttr("http.method") /\ Attr("http.method") = req.method
        /\ HasAttr("http.url") /\ Attr("http.url") = UriToString(req.uri)

C6_Witness ==
    /\ pc = "started"
    /\ req.uri.scheme = None
    /\ req.uri.authority = None
    /\ Attr("span.kind") = "client"
    /\ Attr("http.method") = "GET"
    /\ Attr("http.url") = "/v1/users?id=5"

\* to_ascii_lowercase on the scheme tokens of Schemes.
ToLowercase(s) == IF s = "FTP" THEN "ftp" ELSE s

HostAttribute ==
    /\ HasAttr("http.host") <=> (req.uri.authority # None)
    /\ HasAttr("http.host") =>
          Attr("http.host") = req.uri.authority[1].host

\* C7 as stated: http.host is present exactly when the Uri has a host and
\* is then that host; http.scheme is present exactly when the Uri has a
\* scheme and is then the lowercase scheme token.
C7_LowercaseScheme ==
    Begun =>
        /\ HostAttribute
        /\ HasAttr("http.scheme") <=> (req.uri.scheme # None)
        /\ HasAttr("http.scheme") =>
              Attr("http.scheme") = ToLowercase(req.uri.scheme[1])

\* C7 as amended: http.host is present exactly when the Uri has a host and
\* is then that host; http.scheme is present exactly when the Uri has a
\* scheme and is then the scheme token as the Uri holds it, in the letter
\* case the Uri holds it in.
C7_HostAndScheme ==
    Begun =>
        /\ HostAttribute
        /\ HasAttr("http.scheme") <=> (req.uri.scheme # None)
        /\ HasAttr("http.scheme") =>
              Attr("http.scheme") = req.uri.scheme[1]

C7_Witness ==
    /\ pc = "started"
    /\ req.uri.scheme = Some("FTP")
    /\ Attr("http.scheme") = "FTP"
    /\ req.uri.authority[1].port # None
    /\ Attr("http.host") = "localhost"

\* C8: both operations are total: span_for_request can run on every
\* request and yields a span with a name and the unconditional attributes,
\* annotate_span_for_response can run on every response, and a missing
\* part shows only as an omitted attribute or a fallback literal.
C8_Total ==
    /\ pc = "unstarted" => \A r \in Requests : ENABLED span_for_request(r)
    /\ pc = "started" =>
          \A response \in Responses :
              ENABLED annotate_span_for_response(response)
    /\ Begun =>
          /\ {"span.kind", "http.method", "http.url", "http.flavor"}
                \subseteq DOMAIN span.attributes
          /\ DOMAIN span.attributes \subseteq RequestKeys \cup ResponseKeys
          /\ \A k \in DOMAIN span.attributes : Attr(k) # "<unknown>"
          /\ req.uri.authority = None => ~HasAttr("http.host")
          /\ req.uri.scheme = None => ~HasAttr("http.scheme")
    /\ pc = "completed" => HasAttr("http.status_code")

C8_Witness ==
    /\ pc = "completed"
    /\ req.uri.scheme = None
    /\ req.uri.authority # None
    /\ req.version = "HTTP_09"
    /\ canonical_reason(resp.status) = None
    /\ span.name = "HTTP GET localhost"
    /\ DOMAIN span.attributes =
          {"span.kind", "http.method", "http.url", "http.host",
           "http.flavor", "http.status_code"}

\* C9: every key is written at most once, within a phase and over the
\* whole lifecycle, so that no write replaces an earlier one.
C9_WrittenOnce ==
    Begun =>
        /\ \A i, j \in 1..Len(span.log) :
              span.log[i] = span.log[j] => i = j
        /\ { span.log[i] : i \in 1..Len(span.log) } = DOMAIN span.attributes
        /\ DOMAIN span.attributes \subseteq RequestKeys \cup ResponseKeys

C9_Witness ==
    /\ pc = "completed"
    /\ Len(span.log) = 9
    /\ Cardinality(DOMAIN span.attributes) = 9

\* C10: annotate_span_for_response leaves the span's name and every
\* attribute written by span_for_request as they were, adds no key other
\* than http.status_code and http.status_text, and leaves the status alone
\* for code 200.
C10_Frame ==
    [][ pc = "started" =>
          /\ span'.name = span.name
          /\ \A k \in RequestKeys :
                /\ (k \in DOMAIN span'.attributes) <=> HasAttr(k)
                /\ HasAttr(k) => span'.attributes[k] = Attr(k)
          /\ DOMAIN span'.attributes \subseteq
                DOMAIN span.attributes \cup ResponseKeys
          /\ resp'.status = 200 =>
                /\ span'.status = span.status
                /\ span'.description = span.description ]_vars

C10_Witness ==
    /\ pc = "completed"
    /\ resp.status = 503
    /\ span.name = "HTTP GET api.example.com"
    /\ Attr("http.flavor") = "1.1"
    /\ HasAttr("http.target")
    /\ Attr("http.target") = "/v1/users?id=5"
    /\ Attr("http.status_text") = "Service Unavailable"

====
